---- MODULE Spec2Model ----
(***************************************************************************)
(* A model of BiocBuildCheck's scraping layer (src/check.py).              *)
(*                                                                         *)
(* Python strings are sequences of one-character strings, so that          *)
(* str.split, re.split, the `in` substring test and str.upper are computed *)
(* the way Python computes them.  The one-character string "^" stands for  *)
(* the character U+00E2 that get_log_messages rewrites to an apostrophe.   *)
(*                                                                         *)
(* Five specifications:                                                    *)
(*   SpecParse  parse_log applied to a bounded family of logs.             *)
(*   Spec       one call of get_package_status, one step per (page,        *)
(*              package) of its loop, then the table assembly.             *)
(*   SpecStats  one call of get_download_stats, one step per package.      *)
(*   SpecIssues one call of get_issues, one step per package, followed by  *)
(*              get_github_status on its result.                           *)
(*   SpecDash   the life of a DashData object (src/dash.py): construction, *)
(*              the passing of time, package updates and property reads.   *)
(***************************************************************************)
EXTENDS Integers, Sequences, FiniteSets, TLC

VARIABLES
    pl_log,             \* parse_log: argument log
    pl_status,          \* parse_log: argument status
    pl_result,          \* parse_log: returned list
    pl_pc,              \* parse_log: "call" | "done"
    packages,           \* get_package_status: argument packages (rows Name, Type)
    devel,              \* get_package_status: argument devel
    iterations,         \* the list zip(releases, pages_data) the loop runs over
    pc,                 \* get_package_status: "loop" | "assemble" | "done" | "raised"
    page,               \* position in zip(releases, pages_data), 1-based
    pak,                \* position in paks of the current page, 1-based
    i,                  \* the local i (NoneI while it is None)
    status_dict,        \* the local status_dict
    max_message_count,  \* the local max_message_count
    col_names,          \* the local col_names
    data,               \* the returned DataFrame (NoData until returned)
    err,                \* the exception that ended the call ("" when none)
    seen,               \* history: what the pages held for each i processed
    fetched,            \* history: the log pages requested by get_log_messages
    gds_upstream,       \* get_download_stats: the stats resource of each package
    gds_names,          \* get_download_stats: package_names
    gds_pos,            \* get_download_stats: position in package_names, 1-based
    gds_now,            \* get_download_stats: the local now
    gds_dfs,            \* get_download_stats: the local dfs
    gds_pc,             \* get_download_stats: "loop" | "done" | "raised"
    gds_out,            \* get_download_stats: the rows of the returned frame
    gds_err,            \* get_download_stats: the exception raised ("" when none)
    gi_pages,           \* get_issues: the description page of each package
    gi_names,           \* get_issues: package_names
    gi_pos,             \* get_issues: position in package_names, 1-based
    gi_result,          \* get_issues: the local result (a dict)
    gi_pc,              \* "loop" | "returned" | "raised" | "reported"
    gi_err,             \* get_issues: the exception raised ("" when none)
    gi_status,          \* get_github_status: the returned triple
    clock,              \* DashData: time(), in hours
    cache,              \* DashData: mtime of cache/<type>/*.html (NoFile when absent)
    soup,               \* DashData.soup: per type, when its pages were fetched
    soup_age,           \* DashData.soup_age
    dd_state,           \* "new" | "ready" | "failed" (the constructor raised)
    dd_packages,        \* DashData.packages (the names)
    sydneybiox_packs,   \* DashData.sydneybiox_packs
    dd_status_df,       \* DashData.__status_df
    dd_downloads,       \* DashData.__downloads
    dd_downloads_age,   \* DashData.__downloads_age
    dd_github_issues,   \* DashData.__github_issues
    dd_github_age,      \* DashData.__github_age
    ret                 \* history: the last call on the object and its outcome

gdsVars == <<gds_upstream, gds_names, gds_pos, gds_now, gds_dfs, gds_pc, gds_out, gds_err>>

giVars == <<gi_pages, gi_names, gi_pos, gi_result, gi_pc, gi_err, gi_status>>

ddVars == <<clock, cache, soup, soup_age, dd_state, dd_packages, sydneybiox_packs,
            dd_status_df, dd_downloads, dd_downloads_age, dd_github_issues,
            dd_github_age, ret>>

vars == <<pl_log, pl_status, pl_result, pl_pc, packages, devel, iterations, pc, page, pak, i,
          status_dict, max_message_count, col_names, data, err, seen, fetched,
          gdsVars, giVars, ddVars>>

plVars == <<pl_log, pl_status, pl_result, pl_pc>>

gpsVars == <<packages, devel, iterations, pc, page, pak, i, status_dict, max_message_count,
             col_names, data, err, seen, fetched>>

(***************************************************************************)
(* Bounds.                                                                 *)
(***************************************************************************)
\* parse_log is applied to every concatenation of at most MaxPieces pieces.
MaxPieces == 3

\* get_package_status is called with batches of at most MaxRows records
\* (requested packages times processed pages of their type).
MaxRows == 3

(***************************************************************************)
(* Python string operations.                                               *)
(***************************************************************************)
\* s[i:i+len(t)] == t
OccursAt(s, t, n) ==
    /\ n >= 1
    /\ n + Len(t) - 1 <= Len(s)
    /\ \A j \in 1..Len(t) : s[n + j - 1] = t[j]

\* t in s
Contains(s, t) == \E n \in 1..(Len(s) + 1) : OccursAt(s, t, n)

RECURSIVE SplitFrom(_, _, _, _)
SplitFrom(s, sep, n, cur) ==
    IF n > Len(s) THEN <<cur>>
    ELSE IF OccursAt(s, sep, n)
         THEN <<cur>> \o SplitFrom(s, sep, n + Len(sep), <<>>)
         ELSE SplitFrom(s, sep, n + 1, Append(cur, s[n]))

\* s.split(sep)
Split(s, sep) == SplitFrom(s, sep, 1, <<>>)

RECURSIVE ReSplitFrom(_, _, _, _)
ReSplitFrom(s, seps, n, cur) ==
    IF n > Len(s) THEN <<cur>>
    ELSE IF s[n] \in seps
         THEN <<cur>> \o ReSplitFrom(s, seps, n + 1, <<>>)
         ELSE ReSplitFrom(s, seps, n + 1, Append(cur, s[n]))

\* re.split(r"-|\.", s)
ReSplit(s) == ReSplitFrom(s, {"-", "."}, 1, <<>>)

Lower == <<"a", "b", "c", "d", "e", "f", "g", "h", "i", "j", "k", "l", "m",
           "n", "o", "p", "q", "r", "s", "t", "u", "v", "w", "x", "y", "z">>

Upper == <<"A", "B", "C", "D", "E", "F", "G", "H", "I", "J", "K", "L", "M",
           "N", "O", "P", "Q", "R", "S", "T", "U", "V", "W", "X", "Y", "Z">>

UpperChar(c) ==
    IF \E n \in 1..Len(Lower) : Lower[n] = c
    THEN Upper[CHOOSE n \in 1..Len(Lower) : Lower[n] = c]
    ELSE c

\* s.upper()
ToUpper(s) == [n \in 1..Len(s) |-> UpperChar(s[n])]

\* s.replace(a, b) for one-character a and b
ReplaceChar(s, a, b) == [n \in 1..Len(s) |-> IF s[n] = a THEN b ELSE s[n]]

RECURSIVE Concat(_)
Concat(ss) == IF ss = <<>> THEN <<>> ELSE Head(ss) \o Concat(Tail(ss))

(***************************************************************************)
(* String literals of the source.                                          *)
(***************************************************************************)
LogDelim == <<"\n", "*">>
DONE == <<"D", "O", "N", "E">>
ERROR == <<"E", "R", "R", "O", "R">>
WARNING == <<"W", "A", "R", "N", "I", "N", "G">>
WARNINGS == <<"W", "A", "R", "N", "I", "N", "G", "S">>
TIMEOUT == <<"T", "I", "M", "E", "O", "U", "T">>
OK == <<"O", "K">>
NOT_FOUND == <<"N", "O", "T", " ", "F", "O", "U", "N", "D">>
PRE_BUILD == <<"p", "r", "e", "-", "b", "u", "i", "l", "d">>
Gcard == <<"g", "c", "a", "r", "d">>
OkClass == <<"o", "k">>
ErrorClass == <<"e", "r", "r", "o", "r">>
WarningsClass == <<"w", "a", "r", "n", "i", "n", "g", "s">>
TimeoutClass == <<"t", "i", "m", "e", "o", "u", "t">>
Release == <<"r", "e", "l", "e", "a", "s", "e">>
Devel == <<"d", "e", "v", "e", "l">>
Software == <<"S", "o", "f", "t", "w", "a", "r", "e">>
Workflow == <<"W", "o", "r", "k", "f", "l", "o", "w">>
ExperimentData == <<"E", "x", "p", "e", "r", "i", "m", "e", "n", "t", "D", "a", "t", "a">>

(***************************************************************************)
(* parse_log                                                               *)
(***************************************************************************)
\* A plausible slip: the "DONE" filter left out.
parse_log_keeps_done(log, status) ==
    LET st == IF status # WARNINGS THEN status ELSE WARNING
    IN  SelectSeq(Split(log, LogDelim), LAMBDA x : Contains(x, st))

parse_log(log, status) ==
    LET st == IF status # WARNINGS THEN status ELSE WARNING
        with_status == SelectSeq(Split(log, LogDelim), LAMBDA x : Contains(x, st))
    IN  SelectSeq(with_status, LAMBDA x : ~Contains(x, DONE))

\* The pieces the logs of SpecParse are made of.
LogPieces ==
    { LogDelim, <<"\n">>, <<"*">>, ERROR, WARNING, <<"S">>, DONE, <<" ">> }

PieceSeqs == UNION { [1..n -> LogPieces] : n \in 0..MaxPieces }

Severities == { ERROR, WARNINGS, TIMEOUT }

(***************************************************************************)
(* Table cells.  A Python list holds strings, integers and pd.NA side by   *)
(* side; a cell is tagged with its type so that cells of different types   *)
(* compare unequal.  Missing is what pandas puts where a row is shorter    *)
(* than the widest row.                                                    *)
(***************************************************************************)
Str(s) == [t |-> "str", v |-> s]
Num(n) == [t |-> "int", v |-> n]
NA == [t |-> "NA"]
Missing == [t |-> "Missing"]

IsStr(c, s) == c.t = "str" /\ c.v = s
IsInt(c, n) == c.t = "int" /\ c.v = n
IsAbsent(c) == c.t \in {"NA", "Missing"}

Max(a, b) == IF a >= b THEN a ELSE b

Digits == <<"0", "1", "2", "3", "4", "5", "6", "7", "8", "9">>

RECURSIVE DecStr(_)
\* str(n) for n >= 0
DecStr(n) ==
    IF n < 10 THEN <<Digits[n + 1]>>
    ELSE DecStr(n \div 10) \o <<Digits[(n % 10) + 1]>>

(***************************************************************************)
(* stage_dict                                                              *)
(***************************************************************************)
stage_keys ==
    { <<"i", "n", "s", "t", "a", "l", "l">>,
      <<"b", "u", "i", "l", "d", "s", "r", "c">>,
      <<"c", "h", "e", "c", "k", "s", "r", "c">>,
      <<"b", "u", "i", "l", "d", "b", "i", "n">> }

\* A plausible slip: checksrc mapped to the build stage.
stage_dict_swapped(key) ==
    IF key = <<"i", "n", "s", "t", "a", "l", "l">> THEN key
    ELSE IF key = <<"b", "u", "i", "l", "d", "b", "i", "n">> THEN <<"b", "i", "n">>
    ELSE <<"b", "u", "i", "l", "d">>

stage_dict(key) ==
    IF key = <<"i", "n", "s", "t", "a", "l", "l">> THEN <<"i", "n", "s", "t", "a", "l", "l">>
    ELSE IF key = <<"b", "u", "i", "l", "d", "s", "r", "c">> THEN <<"b", "u", "i", "l", "d">>
    ELSE IF key = <<"c", "h", "e", "c", "k", "s", "r", "c">> THEN <<"c", "h", "e", "c", "k">>
    ELSE <<"b", "i", "n">>

(***************************************************************************)
(* get_log_messages.  log_page is what the request for the log link returns:   *)
(* ok (the HTTP status), has_pre (data.find("pre") is not None) and pre    *)
(* (the text of that element).  The result is the raised exception ("" if  *)
(* none) and the returned messages.                                        *)
(***************************************************************************)
\* A plausible slip: the missing-log check left out.
get_log_messages_unchecked(log_page, status) ==
    IF ~log_page.ok THEN [err |-> "Exception", messages |-> <<>>]
    ELSE [err |-> "",
          messages |-> parse_log(IF log_page.has_pre
                                 THEN ReplaceChar(log_page.pre, "^", "'")
                                 ELSE <<>>, status)]

get_log_messages(log_page, status) ==
    IF ~log_page.ok THEN [err |-> "Exception", messages |-> <<>>]
    ELSE LET log == IF log_page.has_pre THEN ReplaceChar(log_page.pre, "^", "'") ELSE <<>>
         IN  IF log = <<>>
             THEN [err |-> "Exception", messages |-> <<>>]
             ELSE [err |-> "", messages |-> parse_log(log, status)]

(***************************************************************************)
(* Report pages.  What a long-report page holds for one package name:      *)
(*   link        an <a> whose text is the name exists                      *)
(*   href        its href ("" when it has none)                            *)
(*   gcard       the link has an ancestor of class gcard                   *)
(*   class       that ancestor's class list                                *)
(*   version     link.parent.text after the last non-breaking space        *)
(*   maintainer  the text node the maintainer is read from                 *)
(*   anchors     the elements of the card that carry a status class, in    *)
(*               document order: cls (the class), href and text (of the    *)
(*               element's parent), log (the page behind the href)         *)
(***************************************************************************)
LogPage(ok, has_pre, pre) == [ok |-> ok, has_pre |-> has_pre, pre |-> pre]

Anchor(cls, href, text, log) == [cls |-> cls, href |-> href, text |-> text, log |-> log]

Card(link, href, gcard, class, anchors) ==
    [link |-> link, href |-> href, gcard |-> gcard, class |-> class,
     version |-> <<"1", ".", "0">>, maintainer |-> <<"m">>, anchors |-> anchors]

PakHref == <<".", "/", "p", "/">>
NoDotHref == <<"p", "/">>
HrefCheck == <<".", "/", "n", "1", "-", "c", "h", "e", "c", "k", "s", "r", "c", ".", "h", "t", "m", "l">>
HrefBuild == <<".", "/", "n", "1", "-", "b", "u", "i", "l", "d", "s", "r", "c", ".", "h", "t", "m", "l">>
HrefInstall == <<".", "/", "n", "1", "-", "i", "n", "s", "t", "a", "l", "l", ".", "h", "t", "m", "l">>
HrefBin == <<".", "/", "n", "1", "-", "b", "u", "i", "l", "d", "b", "i", "n", ".", "h", "t", "m", "l">>
HrefChecksrcError == <<".", ".", ".", "/", "c", "h", "e", "c", "k", "s", "r", "c", "-", "e", "r", "r", "o", "r", ".", "h", "t", "m", "l">>
HrefNoToken == <<"l", "o", "g">>

LogCheckError ==
    <<"*", "c", "h", "e", "c", "k", "i", "n", "g", "S", "o", "m", "e", "t", "h", "i", "n", "g",
      " ", ".", ".", ".", " ", "E", "R", "R", "O", "R", "\n", "d", "e", "t", "a", "i", "l", "s",
      "\n", "*", "D", "O", "N", "E">>
LogTwoWarnings ==
    <<"*", " ", "a", " ", "W", "A", "R", "N", "I", "N", "G", "\n", "i", "t", "^", "s",
      "\n", "*", " ", "b", " ", "W", "A", "R", "N", "I", "N", "G", "\n", "*", " ", "D", "O", "N", "E">>
LogNoMatch == <<"*", " ", "i", "n", "s", "t", "a", "l", "l", "\n", "*", " ", "D", "O", "N", "E">>
TextPreBuild == <<"E", "R", "R", "O", "R", " ", "(", "n", "o", " ", "d", "e", "p", ")">>

GoodLog(pre) == LogPage(TRUE, TRUE, pre)

ErrorAnchor == Anchor(ERROR, HrefCheck, ERROR, GoodLog(LogCheckError))
WarningsAnchor == Anchor(WARNINGS, HrefBuild, WARNINGS, GoodLog(LogTwoWarnings))

AbsentCard == Card(FALSE, <<>>, FALSE, <<>>, <<>>)
NoDotCard == Card(TRUE, NoDotHref, TRUE, <<Gcard, OkClass>>, <<>>)
NoGcardCard == Card(TRUE, PakHref, FALSE, <<>>, <<>>)
OkCard == Card(TRUE, PakHref, TRUE, <<Gcard, OkClass>>, <<>>)
CompactOkCard == Card(TRUE, PakHref, TRUE, <<<<"c", "o", "m", "p", "a", "c", "t">>, Gcard, OkClass>>, <<>>)
BareCard == Card(TRUE, PakHref, TRUE, <<Gcard>>, <<>>)
ErrorNoAnchorCard == Card(TRUE, PakHref, TRUE, <<Gcard, ErrorClass>>, <<>>)
ErrorNoHrefCard ==
    Card(TRUE, PakHref, TRUE, <<Gcard, ErrorClass>>,
         <<Anchor(ERROR, <<>>, TextPreBuild, LogPage(FALSE, FALSE, <<>>))>>)
ErrorCheckCard == Card(TRUE, PakHref, TRUE, <<Gcard, ErrorClass>>, <<ErrorAnchor>>)
ErrorChecksrcErrorCard ==
    Card(TRUE, PakHref, TRUE, <<Gcard, ErrorClass>>,
         <<Anchor(ERROR, HrefChecksrcError, ERROR, GoodLog(LogCheckError))>>)
ErrorNoTokenCard ==
    Card(TRUE, PakHref, TRUE, <<Gcard, ErrorClass>>,
         <<Anchor(ERROR, HrefNoToken, ERROR, GoodLog(LogCheckError))>>)
ErrorFetchFailCard ==
    Card(TRUE, PakHref, TRUE, <<Gcard, ErrorClass>>,
         <<Anchor(ERROR, HrefBin, ERROR, LogPage(FALSE, FALSE, <<>>))>>)
WarningsNoPreCard ==
    Card(TRUE, PakHref, TRUE, <<Gcard, WarningsClass>>,
         <<Anchor(WARNINGS, HrefBuild, WARNINGS, LogPage(TRUE, FALSE, <<>>))>>)
WarningsEmptyPreCard ==
    Card(TRUE, PakHref, TRUE, <<Gcard, WarningsClass>>,
         <<Anchor(WARNINGS, HrefBuild, WARNINGS, LogPage(TRUE, TRUE, <<>>))>>)
WarningsCard == Card(TRUE, PakHref, TRUE, <<Gcard, WarningsClass>>, <<WarningsAnchor>>)
TimeoutNoMatchCard ==
    Card(TRUE, PakHref, TRUE, <<Gcard, TimeoutClass>>,
         <<Anchor(TIMEOUT, HrefInstall, TIMEOUT, GoodLog(LogNoMatch))>>)
ErrorOkCard == Card(TRUE, PakHref, TRUE, <<Gcard, ErrorClass, OkClass>>, <<ErrorAnchor>>)
OkErrorCard == Card(TRUE, PakHref, TRUE, <<Gcard, OkClass, ErrorClass>>, <<ErrorAnchor>>)
WarningsErrorCard ==
    Card(TRUE, PakHref, TRUE, <<Gcard, WarningsClass, ErrorClass>>,
         <<WarningsAnchor, ErrorAnchor>>)

Cards ==
    { AbsentCard, NoDotCard, NoGcardCard, OkCard, CompactOkCard, BareCard,
      ErrorNoAnchorCard, ErrorNoHrefCard, ErrorCheckCard, ErrorChecksrcErrorCard,
      ErrorNoTokenCard, ErrorFetchFailCard, WarningsNoPreCard, WarningsEmptyPreCard,
      WarningsCard, TimeoutNoMatchCard, ErrorOkCard, OkErrorCard, WarningsErrorCard }

(***************************************************************************)
(* The arguments of get_package_status.                                    *)
(***************************************************************************)
\* The packages a batch is drawn from (rows of the Name / Type frame).
KnownPackages ==
    { [Name |-> <<"a">>, Type |-> Software],
      [Name |-> <<"b">>, Type |-> Software],
      [Name |-> <<"w">>, Type |-> Workflow] }

\* soups: per type, in the dict's order, the pages [release, devel].
soups ==
    << [type |-> Software, pages |-> <<Release, Devel>>],
       [type |-> Workflow, pages |-> <<Release, Devel>>],
       [type |-> ExperimentData, pages |-> <<Release, Devel>>] >>

IsInjective(f) == \A m, n \in DOMAIN f : m # n => f[m] # f[n]

Frames ==
    UNION { { f \in [1..n -> KnownPackages] : IsInjective(f) } :
            n \in 0..Cardinality(KnownPackages) }

RECURSIVE Unique(_)
\* Series.unique(): the values in order of first appearance
Unique(xs) ==
    IF xs = <<>> THEN <<>>
    ELSE LET init == Unique(SubSeq(xs, 1, Len(xs) - 1))
             last == xs[Len(xs)]
         IN  IF \E n \in DOMAIN init : init[n] = last THEN init ELSE Append(init, last)

types(pk) == Unique([n \in DOMAIN pk |-> pk[n].Type])

RECURSIVE Repeat(_, _)
Repeat(xs, n) == IF n = 0 THEN <<>> ELSE xs \o Repeat(xs, n - 1)

releases(pk, dv) == Repeat(IF dv THEN <<Release, Devel>> ELSE <<Release>>, Len(types(pk)))

\* zip([True, devel], soup_list) filtered on keep
KeptPages(soup_list, dv) ==
    LET keep == <<TRUE, dv>>
        n == IF Len(soup_list) < 2 THEN Len(soup_list) ELSE 2
    IN  SelectSeq([m \in 1..n |-> [keep |-> keep[m], soup |-> soup_list[m]]],
                  LAMBDA x : x.keep)

RECURSIVE PagesFrom(_, _, _)
PagesFrom(sp, pk, dv) ==
    IF sp = <<>> THEN <<>>
    ELSE LET head == Head(sp)
             here == IF \E n \in DOMAIN types(pk) : types(pk)[n] = head.type
                     THEN [m \in DOMAIN KeptPages(head.pages, dv) |->
                              [soup |-> KeptPages(head.pages, dv)[m].soup,
                               soup_type |-> head.type]]
                     ELSE <<>>
         IN  here \o PagesFrom(Tail(sp), pk, dv)

pages_data(pk, dv) == PagesFrom(soups, pk, dv)

\* zip(releases, pages_data)
Iterations(pk, dv) ==
    LET r == releases(pk, dv)
        d == pages_data(pk, dv)
        n == IF Len(r) < Len(d) THEN Len(r) ELSE Len(d)
    IN  [m \in 1..n |-> [release |-> r[m], soup |-> d[m].soup, soup_type |-> d[m].soup_type]]

\* list(packages.Name[packages.Type == soup_type])
paks(pk, soup_type) ==
    LET rows == SelectSeq(pk, LAMBDA r : r.Type = soup_type)
    IN  [n \in DOMAIN rows |-> rows[n].Name]

RECURSIVE SumLen(_, _, _)
SumLen(pk, its, n) ==
    IF n = 0 THEN 0 ELSE Len(paks(pk, its[n].soup_type)) + SumLen(pk, its, n - 1)

\* The number of (page, package) pairs the loop visits.
BatchSize(pk, dv) == SumLen(pk, Iterations(pk, dv), Len(Iterations(pk, dv)))

(***************************************************************************)
(* get_package_status: the rows it writes.                                 *)
(***************************************************************************)
base_col_names ==
    << <<"N", "a", "m", "e">>, <<"T", "y", "p", "e">>,
       <<"R", "e", "l", "e", "a", "s", "e">>, <<"V", "e", "r", "s", "i", "o", "n">>,
       <<"M", "a", "i", "n", "t", "a", "i", "n", "e", "r">>,
       <<"L", "o", "g", " ", "L", "e", "v", "e", "l">>, <<"S", "t", "a", "g", "e">>,
       <<"M", "e", "s", "s", "a", "g", "e", " ", "C", "o", "u", "n", "t">> >>

not_found_row(name, soup_type, release) ==
    <<Str(name), Str(release), NA, NA, Str(NOT_FOUND), NA, Num(0)>>

\* A plausible slip: the OK row written with a message count of 1.
ok_row_counted(name, soup_type, release, version, maintainer) ==
    <<Str(name), Str(soup_type), Str(release), Str(version), Str(maintainer),
      Str(OK), NA, Num(1)>>

ok_row(name, soup_type, release, version, maintainer) ==
    <<Str(name), Str(soup_type), Str(release), Str(version), Str(maintainer),
      Str(OK), NA, Num(0)>>

pre_build_row(name, soup_type, release, version, maintainer, text) ==
    <<Str(name), Str(soup_type), Str(release), Str(version), Str(maintainer),
      Str(PRE_BUILD), Num(1), Str(text)>>

\* A plausible slip: the stage left out of the failing row.
failing_row_no_stage(name, soup_type, release, version, maintainer, status, stage, messages) ==
    <<Str(name), Str(soup_type), Str(release), Str(version), Str(maintainer),
      Str(status), NA, Num(Len(messages))>>
    \o [n \in 1..Len(messages) |-> Str(messages[n])]

failing_row(name, soup_type, release, version, maintainer, status, stage, messages) ==
    <<Str(name), Str(soup_type), Str(release), Str(version), Str(maintainer),
      Str(status), Str(stage), Num(Len(messages))>>
    \o [n \in 1..Len(messages) |-> Str(messages[n])]

(***************************************************************************)
(* get_package_status: the scan of one card's status list.  acc is what    *)
(* the scan has done so far: has/row (status_dict[i], once written), mmc   *)
(* (max_message_count), fetched (the log pages requested), err (the        *)
(* exception raised, "" if none).                                          *)
(***************************************************************************)
\* card.find(class_=cls): the elements of the card carrying the class
FindAll(card, cls) == SelectSeq(card.anchors, LAMBDA a : a.cls = cls)

\* A plausible slip: the scan goes on after "ok" (no break).
RECURSIVE ScanStatusesNoBreak(_, _, _, _)
ScanStatusesNoBreak(card, ctx, status_list, acc) ==
    IF status_list = <<>> THEN acc
    ELSE
    LET status == Head(status_list)
        rest == Tail(status_list)
    IN
    IF status = Gcard THEN ScanStatusesNoBreak(card, ctx, rest, acc)
    ELSE IF status = OkClass
    THEN ScanStatusesNoBreak(card, ctx, rest,
            [acc EXCEPT !.has = TRUE,
                        !.row = ok_row(ctx.name, ctx.soup_type, ctx.release,
                                       card.version, card.maintainer)])
    ELSE
    LET upper == ToUpper(status)
        found == FindAll(card, upper)
    IN
    IF found = <<>> THEN [acc EXCEPT !.err = "AttributeError"]
    ELSE
    LET log_link == found[1].href
        tokens == ReSplit(log_link)
    IN
    IF log_link = <<>>
    THEN [acc EXCEPT !.has = TRUE,
                     !.row = pre_build_row(ctx.name, ctx.soup_type, ctx.release,
                                           card.version, card.maintainer, found[1].text),
                     !.mmc = Max(1, acc.mmc),
                     !.err = "TypeError"]
    ELSE IF Len(tokens) < 2 THEN [acc EXCEPT !.err = "IndexError"]
    ELSE IF tokens[Len(tokens) - 1] \notin stage_keys THEN [acc EXCEPT !.err = "KeyError"]
    ELSE
    LET stage == stage_dict(tokens[Len(tokens) - 1])
        got == get_log_messages(found[1].log, upper)
        asked == Append(acc.fetched,
                        [i |-> ctx.i, status |-> upper, log_link |-> log_link,
                         log |-> found[1].log])
    IN
    IF got.err # "" THEN [acc EXCEPT !.fetched = asked, !.err = got.err]
    ELSE ScanStatusesNoBreak(card, ctx, rest,
            [acc EXCEPT !.has = TRUE,
                        !.row = failing_row(ctx.name, ctx.soup_type, ctx.release,
                                            card.version, card.maintainer,
                                            upper, stage, got.messages),
                        !.mmc = Max(Len(got.messages), acc.mmc),
                        !.fetched = asked])

RECURSIVE ScanStatuses(_, _, _, _)
ScanStatuses(card, ctx, status_list, acc) ==
    IF status_list = <<>> THEN acc
    ELSE
    LET status == Head(status_list)
        rest == Tail(status_list)
    IN
    IF status = Gcard THEN ScanStatuses(card, ctx, rest, acc)
    ELSE IF status = OkClass
    THEN [acc EXCEPT !.has = TRUE,
                     !.row = ok_row(ctx.name, ctx.soup_type, ctx.release,
                                    card.version, card.maintainer)]
    ELSE
    LET upper == ToUpper(status)
        found == FindAll(card, upper)
    IN
    IF found = <<>> THEN [acc EXCEPT !.err = "AttributeError"]
    ELSE
    LET log_link == found[1].href
        tokens == ReSplit(log_link)
    IN
    IF log_link = <<>>
    THEN [acc EXCEPT !.has = TRUE,
                     !.row = pre_build_row(ctx.name, ctx.soup_type, ctx.release,
                                           card.version, card.maintainer, found[1].text),
                     !.mmc = Max(1, acc.mmc),
                     !.err = "TypeError"]
    ELSE IF Len(tokens) < 2 THEN [acc EXCEPT !.err = "IndexError"]
    ELSE IF tokens[Len(tokens) - 1] \notin stage_keys THEN [acc EXCEPT !.err = "KeyError"]
    ELSE
    LET stage == stage_dict(tokens[Len(tokens) - 1])
        got == get_log_messages(found[1].log, upper)
        asked == Append(acc.fetched,
                        [i |-> ctx.i, status |-> upper, log_link |-> log_link,
                         log |-> found[1].log])
    IN
    IF got.err # "" THEN [acc EXCEPT !.fetched = asked, !.err = got.err]
    ELSE ScanStatuses(card, ctx, rest,
            [acc EXCEPT !.has = TRUE,
                        !.row = failing_row(ctx.name, ctx.soup_type, ctx.release,
                                            card.version, card.maintainer,
                                            upper, stage, got.messages),
                        !.mmc = Max(Len(got.messages), acc.mmc),
                        !.fetched = asked])

\* Lines 256-320 for one found package: the card lookup, then the scan.
ProcessCard(card, ctx, mmc, asked) ==
    LET acc == [has |-> FALSE, row |-> <<>>, mmc |-> mmc, fetched |-> asked, err |-> ""]
    IN  IF ~card.gcard THEN [acc EXCEPT !.err = "AttributeError"]
        ELSE ScanStatuses(card, ctx, Tail(card.class), acc)

\* name in package_dict.keys()
InPackageDict(card, soup_type) ==
    /\ card.link
    /\ card.href # <<>>
    /\ soup_type = Software => Contains(card.href, <<".">>)

(***************************************************************************)
(* get_package_status: the table assembly.                                 *)
(***************************************************************************)
NoData == [returned |-> FALSE, columns |-> <<>>, index |-> <<>>, rows |-> <<>>]

\* col_names.extend(["Message " + str(j + 1) for j in range(max_message_count)])
ExtendedColNames(names, mmc) ==
    names \o [j \in 1..mmc |-> <<"M", "e", "s", "s", "a", "g", "e", " ">> \o DecStr(j)]

\* row += [pd.NA] * (max_len - len(row))
PadRow(row, max_len) ==
    IF max_len > Len(row) THEN row \o [n \in 1..(max_len - Len(row)) |-> NA] ELSE row

\* The keys the loop `for i in range(len(status_dict))` indexes before it
\* meets one that status_dict does not hold (all of them when it meets none).
PaddedKeys(sd) ==
    LET n == Cardinality(DOMAIN sd)
    IN  { j \in 0..(n - 1) : \A m \in 0..j : m \in DOMAIN sd }

PadKeyError(sd) == \E j \in 0..(Cardinality(DOMAIN sd) - 1) : j \notin DOMAIN sd

PadAll(sd, max_len) ==
    [j \in DOMAIN sd |-> IF j \in PaddedKeys(sd) THEN PadRow(sd[j], max_len) ELSE sd[j]]

RECURSIVE SortedKeys(_)
SortedKeys(ks) ==
    IF ks = {} THEN <<>>
    ELSE LET least == CHOOSE j \in ks : \A m \in ks : j <= m
         IN  <<least>> \o SortedKeys(ks \ {least})

RECURSIVE MaxLen(_)
MaxLen(rows) == IF rows = <<>> THEN 0 ELSE Max(Len(Head(rows)), MaxLen(Tail(rows)))

\* pd.DataFrame.from_dict(status_dict, orient="index", columns=col_names):
\* rows shorter than the widest are filled up, and the widest must be as
\* wide as the column list (ValueError otherwise).
FromDict(sd, names) ==
    LET index == SortedKeys(DOMAIN sd)
        rows == [n \in DOMAIN index |-> sd[index[n]]]
        width == MaxLen(rows)
    IN  IF index = <<>>
        THEN [err |-> "", data |-> [returned |-> TRUE, columns |-> names,
                                    index |-> <<>>, rows |-> <<>>]]
        ELSE IF width # Len(names)
        THEN [err |-> "ValueError", data |-> NoData]
        ELSE [err |-> "",
              data |-> [returned |-> TRUE, columns |-> names, index |-> index,
                        rows |-> [n \in DOMAIN rows |->
                                    rows[n] \o [m \in 1..(width - Len(rows[n])) |-> Missing]]]]

(***************************************************************************)
(* get_package_status as a state machine.                                  *)
(***************************************************************************)
NoneI == -1

CurIteration == iterations[page]

Advance(names) ==
    LET last == pak >= Len(names)
        next_page == IF last THEN page + 1 ELSE page
    IN  /\ page' = next_page
        /\ pak' = IF last THEN 1 ELSE pak + 1
        /\ pc' = IF next_page > Len(iterations) THEN "assemble" ELSE "loop"

Seen(it, name, card) ==
    [name |-> name, soup_type |-> it.soup_type, release |-> it.release,
     soup |-> it.soup, card |-> card]

\* Lines 249-254: the requested name is not in the page's link index.
NotFound ==
    /\ pc = "loop"
    /\ \E it \in {CurIteration} :
       \E names \in {paks(packages, it.soup_type)} :
       \E card \in Cards :
        /\ ~InPackageDict(card, it.soup_type)
        /\ i' = i + 1
        /\ status_dict' = [j \in DOMAIN status_dict \cup {i + 1} |->
                             IF j = i + 1
                             THEN not_found_row(names[pak], it.soup_type, it.release)
                             ELSE status_dict[j]]
        /\ seen' = [j \in DOMAIN seen \cup {i + 1} |->
                      IF j = i + 1 THEN Seen(it, names[pak], card) ELSE seen[j]]
        /\ Advance(names)
    /\ UNCHANGED <<packages, devel, iterations, max_message_count, col_names, data,
                   err, fetched>>
    /\ UNCHANGED <<plVars, gdsVars, giVars, ddVars>>

\* Lines 249-320: the requested name is in the page's link index.
Found ==
    /\ pc = "loop"
    /\ \E it \in {CurIteration} :
       \E names \in {paks(packages, it.soup_type)} :
       \E card \in Cards :
        /\ InPackageDict(card, it.soup_type)
        /\ \E out \in {ProcessCard(card,
                                   [i |-> i + 1, name |-> names[pak],
                                    soup_type |-> it.soup_type, release |-> it.release],
                                   max_message_count, fetched)} :
               /\ i' = i + 1
               /\ status_dict' =
                    IF out.has
                    THEN [j \in DOMAIN status_dict \cup {i + 1} |->
                            IF j = i + 1 THEN out.row ELSE status_dict[j]]
                    ELSE status_dict
               /\ max_message_count' = out.mmc
               /\ fetched' = out.fetched
               /\ err' = out.err
               /\ seen' = [j \in DOMAIN seen \cup {i + 1} |->
                             IF j = i + 1 THEN Seen(it, names[pak], card) ELSE seen[j]]
               /\ IF out.err # ""
                  THEN pc' = "raised" /\ UNCHANGED <<page, pak>>
                  ELSE Advance(names)
    /\ UNCHANGED <<packages, devel, iterations, col_names, data>>
    /\ UNCHANGED <<plVars, gdsVars, giVars, ddVars>>

\* Lines 322-331: extend the column list, pad the rows, build the frame.
Assemble ==
    /\ pc = "assemble"
    /\ \E names \in {ExtendedColNames(col_names, max_message_count)} :
       \E padded \in {PadAll(status_dict, 7 + max_message_count)} :
       \E frame \in {FromDict(padded, names)} :
       LET n == Cardinality(DOMAIN status_dict)
       IN  /\ col_names' = names
           /\ status_dict' = padded
           /\ i' = IF n = 0 THEN i
                   ELSE IF PadKeyError(status_dict)
                        THEN CHOOSE j \in 0..(n - 1) :
                                /\ j \notin DOMAIN status_dict
                                /\ \A m \in 0..(j - 1) : m \in DOMAIN status_dict
                        ELSE n - 1
           /\ IF PadKeyError(status_dict)
              THEN pc' = "raised" /\ err' = "KeyError" /\ data' = NoData
              ELSE IF frame.err # ""
              THEN pc' = "raised" /\ err' = frame.err /\ data' = NoData
              ELSE pc' = "done" /\ err' = "" /\ data' = frame.data
    /\ UNCHANGED <<packages, devel, iterations, page, pak, max_message_count, seen, fetched>>
    /\ UNCHANGED <<plVars, gdsVars, giVars, ddVars>>

\* Python's None.
None == [none |-> TRUE]

GdsIdle ==
    /\ gds_upstream = <<>>
    /\ gds_names = <<>>
    /\ gds_pos = 1
    /\ gds_now = 0
    /\ gds_dfs = <<>>
    /\ gds_pc = "idle"
    /\ gds_out = <<>>
    /\ gds_err = ""

GiIdle ==
    /\ gi_pages = <<>>
    /\ gi_names = <<>>
    /\ gi_pos = 1
    /\ gi_result = <<>>
    /\ gi_pc = "idle"
    /\ gi_err = ""
    /\ gi_status = None

DdIdle ==
    /\ clock = 0
    /\ cache = <<>>
    /\ soup = <<>>
    /\ soup_age = 0
    /\ dd_state = "idle"
    /\ dd_packages = {}
    /\ sydneybiox_packs = None
    /\ dd_status_df = None
    /\ dd_downloads = None
    /\ dd_downloads_age = None
    /\ dd_github_issues = None
    /\ dd_github_age = None
    /\ ret = None

PlIdle ==
    /\ pl_log = <<>>
    /\ pl_status = <<>>
    /\ pl_result = <<>>
    /\ pl_pc = "idle"

Init ==
    /\ PlIdle
    /\ GdsIdle
    /\ GiIdle
    /\ DdIdle
    /\ devel \in BOOLEAN
    /\ packages \in { f \in Frames : BatchSize(f, devel) <= MaxRows }
    /\ iterations = Iterations(packages, devel)
    /\ pc = IF iterations = <<>> THEN "assemble" ELSE "loop"
    /\ page = 1
    /\ pak = 1
    /\ i = NoneI
    /\ status_dict = <<>>
    /\ max_message_count = 0
    /\ col_names = base_col_names
    /\ data = NoData
    /\ err = ""
    /\ seen = <<>>
    /\ fetched = <<>>

Next == NotFound \/ Found \/ Assemble

Spec == Init /\ [][Next]_vars

(***************************************************************************)
(* parse_log as a state machine: one call on a log made of pieces.         *)
(***************************************************************************)
GpsIdle ==
    /\ packages = <<>>
    /\ devel = FALSE
    /\ iterations = <<>>
    /\ pc = "idle"
    /\ page = 1
    /\ pak = 1
    /\ i = NoneI
    /\ status_dict = <<>>
    /\ max_message_count = 0
    /\ col_names = base_col_names
    /\ data = NoData
    /\ err = ""
    /\ seen = <<>>
    /\ fetched = <<>>

InitParse ==
    /\ GpsIdle
    /\ GdsIdle
    /\ GiIdle
    /\ DdIdle
    /\ pl_log \in { Concat(ps) : ps \in PieceSeqs }
    /\ pl_status \in Severities
    /\ pl_result = <<>>
    /\ pl_pc = "call"

ParseLog ==
    /\ pl_pc = "call"
    /\ pl_result' = parse_log(pl_log, pl_status)
    /\ pl_pc' = "done"
    /\ UNCHANGED <<pl_log, pl_status>>
    /\ UNCHANGED <<gpsVars, gdsVars, giVars, ddVars>>

NextParse == ParseLog

SpecParse == InitParse /\ [][NextParse]_vars

(***************************************************************************)
(* Vocabulary of the properties.                                           *)
(***************************************************************************)
\* The positions of the fixed columns in col_names.
NameCol == 1
TypeCol == 2
ReleaseCol == 3
VersionCol == 4
MaintainerCol == 5
LogLevelCol == 6
StageCol == 7
CountCol == 8

RECURSIVE Join(_, _)
\* sep.join(segs)
Join(segs, sep) ==
    IF Len(segs) = 0 THEN <<>>
    ELSE IF Len(segs) = 1 THEN segs[1]
    ELSE segs[1] \o sep \o Join(Tail(segs), sep)

\* The cells of a row after the fixed columns.
MessageCells(row) == SubSeq(row, CountCol + 1, Len(row))

\* How many of those cells hold a message.
MessagesHeld(row) ==
    Cardinality({ n \in DOMAIN MessageCells(row) : ~IsAbsent(MessageCells(row)[n]) })

\* The exception ended the call inside the loop over pages and packages.
LoopRaised == pc = "raised" /\ page <= Len(iterations)

\* The loop ended and the table assembly ran (to a frame or to an exception).
Assembled == pc \in {"done", "raised"} /\ page > Len(iterations)

StageValues == { stage_dict(key) : key \in stage_keys }

FailingLevels == { WARNINGS, WARNING, ERROR, TIMEOUT }

IsFailing(row) == row[LogLevelCol].t = "str" /\ row[LogLevelCol].v \in FailingLevels

LevelCountStage(row) ==
    (IsStr(row[LogLevelCol], OK) \/ IsStr(row[LogLevelCol], NOT_FOUND))
        <=> (IsInt(row[CountCol], 0) /\ IsAbsent(row[StageCol]))

\* C2 (as amended): in every record of the returned table the log level is
\* OK or NOT FOUND exactly when the message count is 0 and the stage is
\* absent; a record with a failing log level has a stage of the stage table
\* and a message count equal to the number of messages it holds, which is 0
\* when the fetched log has no segment matching the severity token.
C2_FailingRecordHasStageAndCountsMessages ==
    data.returned =>
        \A n \in DOMAIN data.rows :
            LET row == data.rows[n]
            IN  /\ LevelCountStage(row)
                /\ IsFailing(row) =>
                    /\ row[StageCol].t = "str"
                    /\ row[StageCol].v \in StageValues
                    /\ row[CountCol].t = "int"
                    /\ row[CountCol].v = MessagesHeld(row)
                    /\ \A m \in 1..Len(MessageCells(row)) :
                        IsAbsent(MessageCells(row)[m]) <=> m > row[CountCol].v

\* A returned table holding a failing record with no message, beside an OK
\* record.
C2_Witness ==
    /\ data.returned
    /\ \E n \in DOMAIN data.rows :
        IsFailing(data.rows[n]) /\ IsInt(data.rows[n][CountCol], 0)
    /\ \E n \in DOMAIN data.rows : IsStr(data.rows[n][LogLevelCol], OK)

\* C2 as stated: a record with a failing log level always has a stage and a
\* message count of at least 1.
C2_Original ==
    data.returned =>
        \A n \in DOMAIN data.rows :
            LET row == data.rows[n]
            IN  /\ LevelCountStage(row)
                /\ IsFailing(row) =>
                    /\ row[StageCol].t = "str"
                    /\ row[CountCol].t = "int"
                    /\ row[CountCol].v >= 1

(***************************************************************************)
(* C3                                                                      *)
(***************************************************************************)
\* C3: the record of a requested package that the page's link index does
\* not hold has Log Level "NOT FOUND", its name, type and release in their
\* own columns, and version, maintainer, stage and messages absent.
C3_NotFoundRecord ==
    data.returned =>
        \A n \in DOMAIN data.rows :
            LET row == data.rows[n]
                was == seen[data.index[n]]
            IN  ~InPackageDict(was.card, was.soup_type) =>
                    /\ IsStr(row[NameCol], was.name)
                    /\ IsStr(row[TypeCol], was.soup_type)
                    /\ IsStr(row[ReleaseCol], was.release)
                    /\ IsAbsent(row[VersionCol])
                    /\ IsAbsent(row[MaintainerCol])
                    /\ IsStr(row[LogLevelCol], NOT_FOUND)
                    /\ IsAbsent(row[StageCol])
                    /\ MessagesHeld(row) = 0

(***************************************************************************)
(* C4                                                                      *)
(***************************************************************************)
\* C4: for a batch whose maximum message count is M, the call returns a
\* table whose every row (OK, NOT FOUND and failing alike) has exactly M
\* message slots after the 8 fixed fields, absent beyond the row's own
\* messages, so that every row is as long as the column list.
C4_RowsPaddedToColumnList ==
    Assembled =>
        /\ data.returned
        /\ Len(data.columns) = CountCol + max_message_count
        /\ \A n \in DOMAIN data.rows :
            /\ Len(data.rows[n]) = Len(data.columns)
            /\ Len(MessageCells(data.rows[n])) = max_message_count
            /\ \A m \in 1..Len(MessageCells(data.rows[n])) :
                m > MessagesHeld(data.rows[n]) => IsAbsent(MessageCells(data.rows[n])[m])
        /\ \A j \in DOMAIN status_dict : Len(status_dict[j]) = Len(col_names)

(***************************************************************************)
(* C5                                                                      *)
(***************************************************************************)
\* The status keywords the scan of a card meets, up to its first "ok".
RECURSIVE ScannedStatuses(_)
ScannedStatuses(status_list) ==
    IF status_list = <<>> THEN <<>>
    ELSE IF Head(status_list) = Gcard THEN ScannedStatuses(Tail(status_list))
    ELSE IF Head(status_list) = OkClass THEN <<OkClass>>
    ELSE <<Head(status_list)>> \o ScannedStatuses(Tail(status_list))

\* The page held a card for the package, with these status keywords to scan.
HasCard(was) == InPackageDict(was.card, was.soup_type) /\ was.card.gcard

Scanned(was) == ScannedStatuses(Tail(was.card.class))

\* The card's only status is a failing one whose anchor has no link target.
OnlyStatusWithoutHref(was) ==
    /\ HasCard(was)
    /\ Len(Scanned(was)) = 1
    /\ Scanned(was)[1] # OkClass
    /\ FindAll(was.card, ToUpper(Scanned(was)[1])) # <<>>
    /\ FindAll(was.card, ToUpper(Scanned(was)[1]))[1].href = <<>>

\* text.split("(")[-1][:-1]
TrailingParenthetical(text) ==
    LET parts == Split(text, <<"(">>)
        last == parts[Len(parts)]
    IN  SubSeq(last, 1, Len(last) - 1)

\* C5: when a card's failing-status anchor has no link target the call goes
\* on without error, and the package's record has stage "pre-build", message
\* count 1 and the trailing parenthetical of the anchor's text as its single
\* message; no log page is fetched for it.
C5_PreBuildRecord ==
    \A j \in DOMAIN seen :
        OnlyStatusWithoutHref(seen[j]) =>
            /\ ~(LoopRaised /\ i = j)
            /\ j \in DOMAIN status_dict
            /\ IsStr(status_dict[j][StageCol], PRE_BUILD)
            /\ IsInt(status_dict[j][CountCol], 1)
            /\ MessagesHeld(status_dict[j]) = 1
            /\ IsStr(status_dict[j][CountCol + 1],
                     TrailingParenthetical(
                        FindAll(seen[j].card, ToUpper(Scanned(seen[j])[1]))[1].text))
            /\ \A n \in DOMAIN fetched : fetched[n].i # j

(***************************************************************************)
(* C6                                                                      *)
(***************************************************************************)
Checksrc == <<"c", "h", "e", "c", "k", "s", "r", "c">>
Check == <<"c", "h", "e", "c", "k">>

\* A card with classes ["gcard", "error"] whose ERROR anchor leads to the
\* log block of the claim.
ErrorCardWithCheckLog(was) ==
    /\ HasCard(was)
    /\ was.card.class = <<Gcard, ErrorClass>>
    /\ FindAll(was.card, ERROR) # <<>>
    /\ FindAll(was.card, ERROR)[1].log = LogPage(TRUE, TRUE, LogCheckError)

SecondToLast(href) == ReSplit(href)[Len(ReSplit(href)) - 1]

CheckErrorRecord(j) ==
    /\ ~(LoopRaised /\ i = j)
    /\ j \in DOMAIN status_dict
    /\ IsStr(status_dict[j][LogLevelCol], ERROR)
    /\ IsStr(status_dict[j][StageCol], Check)
    /\ IsInt(status_dict[j][CountCol], 1)
    /\ MessagesHeld(status_dict[j]) = 1
    /\ status_dict[j][CountCol + 1].t = "str"
    /\ Contains(status_dict[j][CountCol + 1].v, ERROR)
    /\ ~Contains(status_dict[j][CountCol + 1].v, DONE)

\* C6 (as amended): for a card with classes ["gcard", "error"], an ERROR
\* anchor whose href has "checksrc" as its second-to-last token when split on
\* "-" and "." (such as "./n1-checksrc.html"), and the log block
\* "*checkingSomething ... ERROR\ndetails\n*DONE", the record has stage
\* "check", message count 1 and a single message that contains "ERROR" and
\* not "DONE".
C6_ChecksrcTokenGivesCheckStage ==
    \A j \in DOMAIN seen :
        ( /\ ErrorCardWithCheckLog(seen[j])
          /\ Len(ReSplit(FindAll(seen[j].card, ERROR)[1].href)) >= 2
          /\ SecondToLast(FindAll(seen[j].card, ERROR)[1].href) = Checksrc )
        => CheckErrorRecord(j)

\* Such a card was processed and its record is in the returned table.
C6_Witness ==
    /\ data.returned
    /\ \E n \in DOMAIN data.index :
        /\ ErrorCardWithCheckLog(seen[data.index[n]])
        /\ FindAll(seen[data.index[n]].card, ERROR)[1].href = HrefCheck
        /\ IsStr(data.rows[n][StageCol], Check)

\* C6 as stated: the same with the href ".../checksrc-error.html".
C6_Original ==
    \A j \in DOMAIN seen :
        ( /\ ErrorCardWithCheckLog(seen[j])
          /\ FindAll(seen[j].card, ERROR)[1].href = HrefChecksrcError )
        => CheckErrorRecord(j)

(***************************************************************************)
(* C7                                                                      *)
(***************************************************************************)
\* C7: a package whose card has the class list ["gcard", "ok"] yields
\* exactly one record, with log level OK, no stage, message count 0 and no
\* messages.
C7_OkCardGivesOkRecord ==
    \A j \in DOMAIN seen :
        (HasCard(seen[j]) /\ seen[j].card.class = <<Gcard, OkClass>>) =>
            /\ j \in DOMAIN status_dict
            /\ IsStr(status_dict[j][NameCol], seen[j].name)
            /\ IsStr(status_dict[j][LogLevelCol], OK)
            /\ IsAbsent(status_dict[j][StageCol])
            /\ IsInt(status_dict[j][CountCol], 0)
            /\ MessagesHeld(status_dict[j]) = 0
            /\ data.returned =>
                /\ Cardinality({ n \in DOMAIN data.index : data.index[n] = j }) = 1
                /\ \A n \in DOMAIN data.index :
                    data.index[n] = j =>
                        /\ IsStr(data.rows[n][LogLevelCol], OK)
                        /\ IsAbsent(data.rows[n][StageCol])
                        /\ IsInt(data.rows[n][CountCol], 0)
                        /\ MessagesHeld(data.rows[n]) = 0

\* A returned table with message columns and the record of such a card.
C7_Witness ==
    /\ data.returned
    /\ max_message_count >= 1
    /\ \E j \in DOMAIN seen :
        HasCard(seen[j]) /\ seen[j].card.class = <<Gcard, OkClass>>

(***************************************************************************)
(* C8                                                                      *)
(***************************************************************************)
\* C8: the returned table has one row for every requested package on every
\* processed page of that package's type, and no other rows.
C8_OneRowPerPackageAndPage ==
    data.returned =>
        /\ Len(data.rows) = BatchSize(packages, devel)
        /\ \A j \in DOMAIN seen :
            Cardinality({ n \in DOMAIN data.index : data.index[n] = j }) = 1
        /\ \A n \in DOMAIN data.index : data.index[n] \in DOMAIN seen

(***************************************************************************)
(* C9                                                                      *)
(***************************************************************************)
\* C9: if a failing status has a log link and the fetched log page has no
\* preformatted block, the call ends with an exception and returns no table.
C9_MissingLogBlockIsFatal ==
    \A n \in DOMAIN fetched :
        (fetched[n].log.ok /\ ~fetched[n].log.has_pre) =>
            /\ LoopRaised
            /\ err = "Exception"
            /\ i = fetched[n].i
            /\ data = NoData

\* A log page without a preformatted block was fetched.
C9_Witness ==
    \E n \in DOMAIN fetched :
        /\ fetched[n].log.ok
        /\ ~fetched[n].log.has_pre
        /\ fetched[n].log_link # <<>>
        /\ pc = "raised"

(***************************************************************************)
(* C10                                                                     *)
(***************************************************************************)
\* The first status the scan meets is a failing one, with this anchor lookup.
FirstFailing(was) ==
    /\ HasCard(was)
    /\ Scanned(was) # <<>>
    /\ Scanned(was)[1] # OkClass

FirstAnchors(was) == FindAll(was.card, ToUpper(Scanned(was)[1]))

\* The "not found" conditions of the claim.
NoEnclosingCard(was) == InPackageDict(was.card, was.soup_type) /\ ~was.card.gcard

NoStatusAnchor(was) == FirstFailing(was) /\ FirstAnchors(was) = <<>>

NoLinkTarget(was) ==
    FirstFailing(was) /\ FirstAnchors(was) # <<>> /\ FirstAnchors(was)[1].href = <<>>

UnknownStageToken(was) ==
    /\ FirstFailing(was)
    /\ FirstAnchors(was) # <<>>
    /\ Len(ReSplit(FirstAnchors(was)[1].href)) >= 2
    /\ SecondToLast(FirstAnchors(was)[1].href) \notin stage_keys

\* C10: a package link with no enclosing gcard element, a card with no
\* anchor carrying the upper-cased status keyword, a status anchor with no
\* link target and a link target whose second-to-last token is not in the
\* stage table all leave the call running and yield a record.
C10_NotFoundConditionsDegrade ==
    \A j \in DOMAIN seen :
        ( \/ NoEnclosingCard(seen[j])
          \/ NoStatusAnchor(seen[j])
          \/ NoLinkTarget(seen[j])
          \/ UnknownStageToken(seen[j]) )
        => /\ ~(LoopRaised /\ i = j)
           /\ j \in DOMAIN status_dict

(***************************************************************************)
(* C16                                                                     *)
(***************************************************************************)
\* "ok" is among the status keywords of the card.
HasOkKeyword(was) ==
    HasCard(was) /\ \E n \in DOMAIN Tail(was.card.class) : Tail(was.card.class)[n] = OkClass

\* The record of index j is the OK record and nothing was fetched for it.
OkRecordWithoutFetch(j) ==
    /\ ~(LoopRaised /\ i = j)
    /\ j \in DOMAIN status_dict
    /\ IsStr(status_dict[j][LogLevelCol], OK)
    /\ IsAbsent(status_dict[j][StageCol])
    /\ IsInt(status_dict[j][CountCol], 0)
    /\ MessagesHeld(status_dict[j]) = 0
    /\ \A n \in DOMAIN fetched : fetched[n].i # j

\* C16 (as amended): whenever "ok" is among a card's status keywords and no
\* failing keyword precedes it in the class list, the package's record is OK
\* with no stage and no messages, and no log page is fetched and no failing
\* status is processed for that card, whatever keywords follow "ok".
C16_OkBeforeFailingEndsScan ==
    \A j \in DOMAIN seen :
        (HasOkKeyword(seen[j]) /\ Scanned(seen[j])[1] = OkClass) => OkRecordWithoutFetch(j)

\* A card whose class list holds "ok" and then a failing keyword was processed.
C16_Witness ==
    /\ pc = "done"
    /\ \E j \in DOMAIN seen :
        /\ HasOkKeyword(seen[j])
        /\ seen[j].card.class = <<Gcard, OkClass, ErrorClass>>

\* C16 as stated: "ok" at any position of the class list.
C16_Original ==
    \A j \in DOMAIN seen : HasOkKeyword(seen[j]) => OkRecordWithoutFetch(j)

(***************************************************************************)
(* get_download_stats (src/check.py): one step per package name, then the  *)
(* final raise or concat.  Time is counted in ticks, TicksPerMonth to the  *)
(* month, so that "the first instant of a month" and "later in that month" *)
(* are different times.                                                    *)
(***************************************************************************)
MaxNames == 2
TicksPerMonth == 2

Months == <<"Jan", "Feb", "Mar", "Apr", "May", "Jun",
            "Jul", "Aug", "Sep", "Oct", "Nov", "Dec">>

\* strptime accepts the month abbreviations only.
ParsesAsMonth(month) == \E n \in DOMAIN Months : Months[n] = month

\* pd.to_datetime(Year + "-" + Month, format="%Y-%b"): the first instant of
\* that month.
to_datetime(year, month) ==
    LET number == CHOOSE n \in DOMAIN Months : Months[n] = month
    IN  ((year * 12) + (number - 1)) * TicksPerMonth

\* A row of the upstream tab-separated resource.
StatsRow(year, month, downloads, ips) ==
    [Year |-> year, Month |-> month, Nb_of_downloads |-> downloads,
     Nb_of_distinct_IPs |-> ips]

\* The first instant of the month the queries are made around.
ThisMonth == to_datetime(2024, "Feb")

UpstreamTables ==
    { <<>>,
      <<StatsRow(2024, "all", 0, 0)>>,
      <<StatsRow(2024, "Dec", 0, 0), StatsRow(2024, "all", 0, 0)>>,
      <<StatsRow(2023, "Dec", 2, 1), StatsRow(2023, "all", 2, 1),
        StatsRow(2024, "Jan", 5, 3), StatsRow(2024, "Feb", 7, 4),
        StatsRow(2024, "Dec", 0, 0), StatsRow(2024, "all", 12, 7)>> }

\* pd.read_csv raised for this package.
NoResource == [ok |-> FALSE, rows |-> <<>>]

Resources == {NoResource} \cup { [ok |-> TRUE, rows |-> t] : t \in UpstreamTables }

StatNames == {"a", "b"}

NameLists == UNION { [1..n -> StatNames] : n \in 0..MaxNames }

\* A plausible slip: rows dated at the query time are kept.
NotAfterNow(date, now) == date <= now

\* .query("Date < @now")
BeforeNow(date, now) == date < now

\* The row the pipe builds from an upstream row.
DownloadStat(name, row) ==
    [Name |-> name, Date |-> to_datetime(row.Year, row.Month),
     Downloads |-> row.Nb_of_downloads, DistinctIPs |-> row.Nb_of_distinct_IPs]

\* Lines 367-385: the frame appended for one fetched resource.
query_frame(name, rows, now) ==
    LET monthly == SelectSeq(rows, LAMBDA r : r.Month # "all")
    IN  IF \E n \in DOMAIN monthly : ~ParsesAsMonth(monthly[n].Month)
        THEN [err |-> "ValueError", rows |-> <<>>]
        ELSE LET built == [n \in DOMAIN monthly |-> DownloadStat(name, monthly[n])]
             IN  [err |-> "",
                  rows |-> SelectSeq(built, LAMBDA r : BeforeNow(r.Date, now))]

\* A plausible slip: the call fails when no row is left, not when no frame is.
NoRowsKept(dfs) == \A k \in DOMAIN dfs : dfs[k].rows = <<>>

\* Line 387: `if not dfs`.
NoUsableResult(dfs) == dfs = <<>>

RECURSIVE pd_concat(_)
\* pd.concat(dfs): the rows of the frames, in order.
pd_concat(dfs) ==
    IF dfs = <<>> THEN <<>> ELSE Head(dfs).rows \o pd_concat(Tail(dfs))

\* datetime.now() read in an iteration: the time does not run backwards.
Nows == { t \in gds_now..(gds_now + 1) : t <= ThisMonth + 1 }

\* Lines 363-366: read_csv raised, the package is skipped.
GdsSkip ==
    /\ gds_pc = "loop"
    /\ gds_pos <= Len(gds_names)
    /\ ~gds_upstream[gds_names[gds_pos]].ok
    /\ gds_now' \in Nows
    /\ gds_pos' = gds_pos + 1
    /\ UNCHANGED <<gds_upstream, gds_names, gds_dfs, gds_pc, gds_out, gds_err>>
    /\ UNCHANGED <<plVars, gpsVars, giVars, ddVars>>

\* Lines 362-385: the resource was read and its frame appended.
GdsAppend ==
    /\ gds_pc = "loop"
    /\ gds_pos <= Len(gds_names)
    /\ gds_upstream[gds_names[gds_pos]].ok
    /\ \E now \in Nows :
       \E frame \in {query_frame(gds_names[gds_pos],
                                 gds_upstream[gds_names[gds_pos]].rows, now)} :
          /\ gds_now' = now
          /\ IF frame.err # ""
             THEN /\ gds_pc' = "raised"
                  /\ gds_err' = frame.err
                  /\ UNCHANGED <<gds_pos, gds_dfs>>
             ELSE /\ gds_dfs' = Append(gds_dfs, [name |-> gds_names[gds_pos],
                                                  now |-> now, rows |-> frame.rows])
                  /\ gds_pos' = gds_pos + 1
                  /\ UNCHANGED <<gds_pc, gds_err>>
    /\ UNCHANGED <<gds_upstream, gds_names, gds_out>>
    /\ UNCHANGED <<plVars, gpsVars, giVars, ddVars>>

\* Lines 387-390: raise BiocDownloadsError or return the concatenation.
GdsReturn ==
    /\ gds_pc = "loop"
    /\ gds_pos > Len(gds_names)
    /\ IF NoUsableResult(gds_dfs)
       THEN gds_pc' = "raised" /\ gds_err' = "BiocDownloadsError" /\ gds_out' = <<>>
       ELSE gds_pc' = "done" /\ gds_err' = "" /\ gds_out' = pd_concat(gds_dfs)
    /\ UNCHANGED <<gds_upstream, gds_names, gds_pos, gds_now, gds_dfs>>
    /\ UNCHANGED <<plVars, gpsVars, giVars, ddVars>>

InitStats ==
    /\ PlIdle
    /\ GpsIdle
    /\ GiIdle
    /\ DdIdle
    /\ gds_upstream \in [StatNames -> Resources]
    /\ gds_names \in NameLists
    /\ gds_pos = 1
    /\ gds_now \in {ThisMonth - 1, ThisMonth}
    /\ gds_dfs = <<>>
    /\ gds_pc = "loop"
    /\ gds_out = <<>>
    /\ gds_err = ""

NextStats == GdsSkip \/ GdsAppend \/ GdsReturn

SpecStats == InitStats /\ [][NextStats]_vars

(***************************************************************************)
(* C13, C14                                                                *)
(***************************************************************************)
\* The upstream rows of the package a frame of dfs was built from.
UpstreamOf(frame) == gds_upstream[frame.name].rows

\* C13: every row returned by get_download_stats comes from an upstream row
\* whose month is not "all" and is dated strictly before the time of its
\* query; and every upstream row of a fetched package whose month is not
\* "all" and which is dated before the query time is among the rows kept.
C13_RowsAreMonthlyAndPast ==
    /\ \A k \in DOMAIN gds_dfs :
          LET frame == gds_dfs[k]
              up == UpstreamOf(frame)
          IN  /\ \A n \in DOMAIN frame.rows :
                    /\ frame.rows[n].Date < frame.now
                    /\ \E m \in DOMAIN up :
                          /\ up[m].Month # "all"
                          /\ frame.rows[n] = DownloadStat(frame.name, up[m])
              /\ \A m \in DOMAIN up :
                    (up[m].Month # "all" /\ to_datetime(up[m].Year, up[m].Month) < frame.now)
                        => \E n \in DOMAIN frame.rows :
                              frame.rows[n] = DownloadStat(frame.name, up[m])
    /\ gds_pc = "done" =>
          /\ \A k \in DOMAIN gds_dfs : \A m \in DOMAIN gds_dfs[k].rows :
                \E n \in DOMAIN gds_out : gds_out[n] = gds_dfs[k].rows[m]
          /\ \A n \in DOMAIN gds_out :
                \E k \in DOMAIN gds_dfs : \E m \in DOMAIN gds_dfs[k].rows :
                    gds_out[n] = gds_dfs[k].rows[m]

\* A call returned for a package queried at the first instant of a month whose
\* resource holds the aggregate row, a row of that month and an earlier row.
C13_Witness ==
    /\ gds_pc = "done"
    /\ gds_out # <<>>
    /\ \E k \in DOMAIN gds_dfs :
          /\ gds_dfs[k].now = ThisMonth
          /\ \E m \in DOMAIN UpstreamOf(gds_dfs[k]) :
                UpstreamOf(gds_dfs[k])[m].Month = "all"
          /\ \E m \in DOMAIN UpstreamOf(gds_dfs[k]) :
                /\ UpstreamOf(gds_dfs[k])[m].Month # "all"
                /\ to_datetime(UpstreamOf(gds_dfs[k])[m].Year,
                               UpstreamOf(gds_dfs[k])[m].Month) = ThisMonth
          /\ gds_dfs[k].rows # <<>>

\* The requested names whose resource can be fetched, in request order.
FetchedNames == SelectSeq(gds_names, LAMBDA name : gds_upstream[name].ok)

\* C14: a package whose resource cannot be fetched is skipped and never ends
\* the call; the call raises BiocDownloadsError exactly when no requested
\* package was fetched; otherwise it returns, and the frames it concatenates
\* are those of exactly the fetched packages.
C14_SkipsAndFailsOnlyWhenNothingFetched ==
    /\ gds_err \in {"", "BiocDownloadsError"}
    /\ gds_pc = "loop" =>
          /\ gds_err = ""
          /\ [k \in DOMAIN gds_dfs |-> gds_dfs[k].name]
                = SelectSeq(SubSeq(gds_names, 1, gds_pos - 1),
                            LAMBDA name : gds_upstream[name].ok)
    /\ gds_pc = "raised" => (gds_err = "BiocDownloadsError" /\ FetchedNames = <<>>)
    /\ gds_pc = "done" =>
          /\ FetchedNames # <<>>
          /\ [k \in DOMAIN gds_dfs |-> gds_dfs[k].name] = FetchedNames
          /\ \A n \in DOMAIN gds_out :
                \E k \in DOMAIN FetchedNames : gds_out[n].Name = FetchedNames[k]

\* A call returned although one requested package had no resource, and the
\* package that was fetched left no row.
C14_Witness ==
    /\ gds_pc = "done"
    /\ \E n \in DOMAIN gds_names : ~gds_upstream[gds_names[n]].ok
    /\ gds_out = <<>>

(***************************************************************************)
(* get_issues and get_github_status (src/check.py): one step per package   *)
(* name, the return, then get_github_status on the returned dict.          *)
(***************************************************************************)
RECURSIVE JoinWith(_, _)
\* sep.join(segs)
JoinWith(segs, sep) ==
    IF Len(segs) = 0 THEN <<>>
    ELSE IF Len(segs) = 1 THEN segs[1]
    ELSE segs[1] \o sep \o JoinWith(Tail(segs), sep)

\* urlparse(url).path for scheme://host/path: what follows the host.
UrlPath(url) ==
    LET parts == Split(url, <<"/">>)
    IN  IF Len(parts) < 4 THEN <<>>
        ELSE <<"/">> \o JoinWith(SubSeq(parts, 4, Len(parts)), <<"/">>)

\* Line 456: "/".join(x for x in url.path.split("/") if x and x != "issues")
repo_name(url) ==
    JoinWith(SelectSeq(Split(UrlPath(url), <<"/">>),
                       LAMBDA x : x # <<>> /\ x # <<"i", "s", "s", "u", "e", "s">>), <<"/">>)

\* The repositories GitHub knows, with their open issues.
Repos ==
    { [name |-> <<"o", "/", "r">>,
       issues |-> <<[title |-> "t1", number |-> 1, labels |-> <<<<"b", "u", "g">>>>,
                     assignee |-> TRUE],
                    [title |-> "t2", number |-> 2, labels |-> <<>>,
                     assignee |-> FALSE]>>],
      [name |-> <<"o", "/", "e">>, issues |-> <<>>] }

\* github.get_repo(name).get_issues(state="open"): raises for an unknown name.
get_repo(name) ==
    IF \E repo \in Repos : repo.name = name
    THEN [err |-> "", issues |-> (CHOOSE repo \in Repos : repo.name = name).issues]
    ELSE [err |-> "UnknownObjectException", issues |-> <<>>]

\* get_descrption_data raised for this package.
NoPage == [ok |-> FALSE, has_key |-> FALSE, BugReports |-> <<>>]

\* The description data of a package: with or without the BugReports key.
Description(has_key, value) == [ok |-> TRUE, has_key |-> has_key, BugReports |-> value]

\* The pages: none, no BugReports key, an empty value, a repository with open
\* issues, one without, and a link that names no GitHub repository.
DescriptionPages ==
    { NoPage, Description(FALSE, <<>>), Description(TRUE, <<>>),
      Description(TRUE, <<"h", ":", "/", "/", "g", "/", "o", "/", "r", "/", "i", "s", "s", "u", "e", "s">>),
      Description(TRUE, <<"h", ":", "/", "/", "g", "/", "o", "/", "e">>),
      Description(TRUE, <<"h", ":", "/", "/", "x", "/", "t", "/", "k">>) }

\* Line 447: "BugReports" not in data.keys() or not data["BugReports"]
NoBugReports(description) == ~description.has_key \/ description.BugReports = <<>>

\* A tuple of issues as a value of the dict.
Tuple(issues) == [none |-> FALSE, issues |-> issues]

\* result[name] = value on a dict kept as its items in insertion order.
DictSet(dict, key, value) ==
    IF \E n \in DOMAIN dict : dict[n].key = key
    THEN [n \in DOMAIN dict |->
            IF dict[n].key = key THEN [key |-> key, value |-> value] ELSE dict[n]]
    ELSE Append(dict, [key |-> key, value |-> value])

GiName == gi_names[gi_pos]

GiStep(value) ==
    /\ gi_result' = DictSet(gi_result, GiName, value)
    /\ gi_pos' = gi_pos + 1
    /\ UNCHANGED <<gi_pages, gi_names, gi_pc, gi_err, gi_status>>
    /\ UNCHANGED <<plVars, gpsVars, gdsVars, ddVars>>

\* Lines 441-445: the description page cannot be fetched.
GiNoPage ==
    /\ gi_pc = "loop"
    /\ gi_pos <= Len(gi_names)
    /\ ~gi_pages[GiName].ok
    /\ GiStep(None)

\* Lines 447-449: the description has no BugReports value.
GiNoBugReports ==
    /\ gi_pc = "loop"
    /\ gi_pos <= Len(gi_names)
    /\ gi_pages[GiName].ok
    /\ NoBugReports(gi_pages[GiName])
    /\ GiStep(None)

\* Lines 451-458: the repository is resolved and its open issues stored.
GiIssues ==
    /\ gi_pc = "loop"
    /\ gi_pos <= Len(gi_names)
    /\ gi_pages[GiName].ok
    /\ ~NoBugReports(gi_pages[GiName])
    /\ \E got \in {get_repo(repo_name(gi_pages[GiName].BugReports))} :
          /\ got.err = ""
          /\ GiStep(Tuple(got.issues))

\* Line 458: get_repo raises; nothing in get_issues catches it.
GiRaise ==
    /\ gi_pc = "loop"
    /\ gi_pos <= Len(gi_names)
    /\ gi_pages[GiName].ok
    /\ ~NoBugReports(gi_pages[GiName])
    /\ \E got \in {get_repo(repo_name(gi_pages[GiName].BugReports))} :
          /\ got.err # ""
          /\ gi_pc' = "raised"
          /\ gi_err' = got.err
    /\ UNCHANGED <<gi_pages, gi_names, gi_pos, gi_result, gi_status>>
    /\ UNCHANGED <<plVars, gpsVars, gdsVars, ddVars>>

\* Line 460.
GiReturn ==
    /\ gi_pc = "loop"
    /\ gi_pos > Len(gi_names)
    /\ gi_pc' = "returned"
    /\ UNCHANGED <<gi_pages, gi_names, gi_pos, gi_result, gi_err, gi_status>>
    /\ UNCHANGED <<plVars, gpsVars, gdsVars, ddVars>>

\* Lines 497-507: the detail row of one issue.
DetailRow(pak_name, issue) ==
    [Name |-> pak_name, Title |-> issue.title, Number |-> issue.number,
     Labelled |-> IF issue.labels # <<>> THEN "Yes" ELSE "No",
     Bug |-> IF issue.labels # <<>> /\ Contains(<<"b", "u", "g">>, issue.labels[1])
             THEN "Yes" ELSE "No",
     Assigned |-> IF issue.assignee THEN "Yes" ELSE "No"]

RECURSIVE DetailList(_)
\* Lines 486-508: the rows appended to detail_list, in dict order.
DetailList(items) ==
    IF items = <<>> THEN <<>>
    ELSE LET item == Head(items)
         IN  (IF item.value.none THEN <<>>
              ELSE [n \in DOMAIN item.value.issues |->
                        DetailRow(item.key, item.value.issues[n])])
             \o DetailList(Tail(items))

Keys(items) == [n \in DOMAIN items |-> items[n].key]

\* Lines 482-511.
get_github_status(query_results) ==
    [df |-> IF DetailList(query_results) # <<>>
            THEN [none |-> FALSE, rows |-> DetailList(query_results)]
            ELSE None,
     missing_list |-> Keys(SelectSeq(query_results, LAMBDA item : item.value.none)),
     no_issues |-> Keys(SelectSeq(query_results,
                        LAMBDA item : ~item.value.none /\ item.value.issues = <<>>))]

\* get_github_status applied to what get_issues returned.
GithubStatus ==
    /\ gi_pc = "returned"
    /\ gi_status' = get_github_status(gi_result)
    /\ gi_pc' = "reported"
    /\ UNCHANGED <<gi_pages, gi_names, gi_pos, gi_result, gi_err>>
    /\ UNCHANGED <<plVars, gpsVars, gdsVars, ddVars>>

InitIssues ==
    /\ PlIdle
    /\ GpsIdle
    /\ GdsIdle
    /\ DdIdle
    /\ gi_pages \in [StatNames -> DescriptionPages]
    /\ gi_names \in NameLists
    /\ gi_pos = 1
    /\ gi_result = <<>>
    /\ gi_pc = "loop"
    /\ gi_err = ""
    /\ gi_status = None

NextIssues == GiNoPage \/ GiNoBugReports \/ GiIssues \/ GiRaise \/ GiReturn \/ GithubStatus

SpecIssues == InitIssues /\ [][NextIssues]_vars

(***************************************************************************)
(* C15                                                                     *)
(***************************************************************************)
\* The loop of get_issues has dealt with position n of package_names.
GiProcessed(n) == n < gi_pos \/ (n = gi_pos /\ gi_pc = "raised")

\* Where the dict holds a name.
GiIndex(name) == CHOOSE n \in DOMAIN gi_result : gi_result[n].key = name

InList(name, list) == \E n \in DOMAIN list : list[n] = name

\* C15: get_issues records a package as None exactly when its description
\* cannot be fetched or its BugReports value is missing or empty, and as a
\* tuple of issues otherwise; get_github_status puts every package of the
\* result in exactly one of the missing list (None), the no-issues list
\* (empty tuple) and the detail rows (non-empty tuple).
C15_UnknownIsNeverZeroIssues ==
    /\ \A n \in DOMAIN gi_names :
          GiProcessed(n) =>
              /\ InList(gi_names[n], Keys(gi_result))
              /\ gi_result[GiIndex(gi_names[n])].value.none
                    <=> (~gi_pages[gi_names[n]].ok \/ NoBugReports(gi_pages[gi_names[n]]))
    /\ gi_pc = "reported" =>
          \A n \in DOMAIN gi_result :
              LET item == gi_result[n]
                  missing == InList(item.key, gi_status.missing_list)
                  none == InList(item.key, gi_status.no_issues)
                  detailed == /\ ~gi_status.df.none
                              /\ \E m \in DOMAIN gi_status.df.rows :
                                    gi_status.df.rows[m].Name = item.key
              IN  /\ missing <=> item.value.none
                  /\ none <=> (~item.value.none /\ item.value.issues = <<>>)
                  /\ detailed <=> (~item.value.none /\ item.value.issues # <<>>)

(***************************************************************************)
(* DashData (src/dash.py).  Time is counted in hours.  A page is known by  *)
(* the time it was fetched; a status table, a download table and an issue  *)
(* dict are known by the package set they were computed for and by the     *)
(* pages or the time they were computed from.  Each method call and each   *)
(* property read is one step.                                              *)
(***************************************************************************)
MaxTicks == 2
TickHours == 5

\* The staleness threshold of lines 67, 146 and 183, in hours.
MaxAgeHours == 8

\* float("inf")
Inf == 1000000

\* A cache file that does not exist.
NoFile == -1

\* The keys of self.soup, in order.
SoupKeys == <<Software, Workflow, ExperimentData>>

StartClock == 3 * TickHours

\* The names of valid_paks ("z" below is a name that is not among them), the
\* column labels of the valid_paks frame, and the lines of the file "packages".
ValidNames == {<<"a">>, <<"b">>}
ColumnLabels == {<<"N", "a", "m", "e">>, <<"T", "y", "p", "e">>}
FileNames == {<<"a">>, <<"z">>}

\* valid_paks[valid_paks["Name"].isin(package_list)], as the set of its names.
isin(package_list) == ValidNames \cap package_list

\* get_package_status(packages=self.packages, devel=True, soups=self.soup)
StatusOf(names, pages) == [none |-> FALSE, packages |-> names, pages |-> pages]

\* What get_download_stats or get_issues returned for a package set at a time.
Snapshot(names, time) == [none |-> FALSE, packages |-> names, fetched |-> time]

\* The outcomes of get_download_stats(self.packages): no name, no resource.
StatsOutcomes(names) ==
    IF names = {} THEN {"BiocDownloadsError"} ELSE {"", "BiocDownloadsError", "ValueError"}

\* The outcomes of get_issues(self.packages).
IssuesOutcomes(names) == IF names = {} THEN {""} ELSE {"", "UnknownObjectException"}

\* (time() - t) / 3600 > 8
Stale(t) == clock - t > MaxAgeHours

\* Lines 101-109: update_soup(type); get_pages_data raises when fails.
update_soup(st, k, fails) ==
    IF fails THEN [st EXCEPT !.err = "Exception"]
    ELSE [st EXCEPT !.soup[k] = clock, !.soup_age = clock, !.cache[k] = clock]

RECURSIVE LoadSoups(_, _, _)
\* Lines 55-76: the loop of __init__ from key k on; the fetch of key fail_at fails.
LoadSoups(k, st, fail_at) ==
    IF k > Len(SoupKeys) \/ st.err # "" THEN st
    ELSE LET mtime == st.cache[k]
         IN  LoadSoups(k + 1,
                 IF mtime # NoFile /\ ~Stale(mtime)
                 THEN [st EXCEPT !.soup_age = IF mtime < @ THEN mtime ELSE @,
                                 !.soup[k] = mtime]
                 ELSE update_soup(st, k, fail_at = k),
                 fail_at)

RECURSIVE RefreshSoups(_, _, _)
\* Lines 147-148: update_soup for every key, in order, until one raises.
RefreshSoups(k, st, fail_at) ==
    IF k > Len(SoupKeys) \/ st.err # "" THEN st
    ELSE RefreshSoups(k + 1, update_soup(st, k, fail_at = k), fail_at)

SoupState == [soup |-> soup, soup_age |-> soup_age, cache |-> cache, err |-> ""]

\* Lines 38-99: DashData(package_list).
Construct ==
    /\ dd_state \in {"new", "failed"}
    /\ \E package_list \in {{}, {<<"b">>}} :
       \E fail_at \in 0..Len(SoupKeys) :
       \E st \in {LoadSoups(1, [SoupState EXCEPT !.soup_age = Inf], fail_at)} :
          /\ cache' = st.cache
          /\ IF st.err # ""
             THEN /\ dd_state' = "failed"
                  /\ ret' = [op |-> "__init__", raised |-> st.err]
                  /\ UNCHANGED <<soup, soup_age, dd_packages, sydneybiox_packs,
                                 dd_status_df>>
             ELSE /\ dd_state' = "ready"
                  /\ soup' = st.soup
                  /\ soup_age' = st.soup_age
                  /\ dd_packages' = IF package_list = {} THEN isin(FileNames)
                                    ELSE isin(package_list)
                  /\ sydneybiox_packs' =
                        IF package_list = {}
                        THEN [none |-> FALSE, names |-> isin(FileNames)]
                        ELSE None
                  /\ dd_status_df' = StatusOf(dd_packages', st.soup)
                  /\ ret' = [op |-> "__init__", raised |-> ""]
    /\ UNCHANGED <<clock, dd_downloads, dd_downloads_age, dd_github_issues, dd_github_age>>
    /\ UNCHANGED <<plVars, gpsVars, gdsVars, giVars>>

\* Time passes between two calls.
Tick ==
    /\ dd_state = "ready"
    /\ clock + TickHours <= StartClock + (MaxTicks * TickHours)
    /\ clock' = clock + TickHours
    /\ ret' = None
    /\ UNCHANGED <<cache, soup, soup_age, dd_state, dd_packages, sydneybiox_packs,
                   dd_status_df, dd_downloads, dd_downloads_age, dd_github_issues,
                   dd_github_age>>
    /\ UNCHANGED <<plVars, gpsVars, gdsVars, giVars>>

\* Lines 133-137.
reset_data ==
    /\ dd_downloads' = None
    /\ dd_github_issues' = None
    /\ dd_status_df' = None

\* Lines 111-131: update_packages(package_list), called by the method `op`.
update_packages(package_list, call) ==
    IF package_list = {}
    THEN IF sydneybiox_packs.none
         THEN /\ ret' = [call EXCEPT !.raised = "AttributeError"]
              /\ UNCHANGED <<dd_packages, dd_status_df, dd_downloads, dd_github_issues>>
         ELSE IF dd_packages = sydneybiox_packs.names
         THEN /\ ret' = call
              /\ UNCHANGED <<dd_packages, dd_status_df, dd_downloads, dd_github_issues>>
         ELSE /\ ret' = call
              /\ dd_packages' = sydneybiox_packs.names
              /\ reset_data
    ELSE IF package_list = dd_packages
    THEN /\ ret' = call
         /\ UNCHANGED <<dd_packages, dd_status_df, dd_downloads, dd_github_issues>>
    ELSE /\ ret' = call
         /\ dd_packages' = isin(package_list)
         /\ reset_data

\* Lists a caller passes: none, known names, a known and an unknown name.
PackageLists == {{}, {<<"a">>}, {<<"b">>}, {<<"a">>, <<"z">>}}

UpdatePackages ==
    /\ dd_state = "ready"
    /\ \E package_list \in PackageLists :
          update_packages(package_list, [op |-> "update_packages", raised |-> ""])
    /\ UNCHANGED <<clock, cache, soup, soup_age, dd_state, sydneybiox_packs,
                   dd_downloads_age, dd_github_age>>
    /\ UNCHANGED <<plVars, gpsVars, gdsVars, giVars>>

\* Lines 139-160: the property status_df; fail_at as in LoadSoups.
ReadStatusDf ==
    /\ dd_state = "ready"
    /\ IF Stale(soup_age)
       THEN \E fail_at \in 0..Len(SoupKeys) :
            \E st \in {RefreshSoups(1, SoupState, fail_at)} :
               /\ soup' = st.soup
               /\ soup_age' = st.soup_age
               /\ cache' = st.cache
               /\ IF st.err # ""
                  THEN /\ ret' = [op |-> "status_df", raised |-> st.err, value |-> None]
                       /\ UNCHANGED dd_status_df
                  ELSE /\ dd_status_df' = StatusOf(dd_packages, st.soup)
                       /\ ret' = [op |-> "status_df", raised |-> "",
                                  value |-> dd_status_df']
       ELSE /\ dd_status_df' = IF dd_status_df.none THEN StatusOf(dd_packages, soup)
                               ELSE dd_status_df
            /\ ret' = [op |-> "status_df", raised |-> "", value |-> dd_status_df']
            /\ UNCHANGED <<soup, soup_age, cache>>
    /\ UNCHANGED <<clock, dd_state, dd_packages, sydneybiox_packs, dd_downloads,
                   dd_downloads_age, dd_github_issues, dd_github_age>>
    /\ UNCHANGED <<plVars, gpsVars, gdsVars, giVars>>

\* Lines 162-188: the property downloads.
ReadDownloads ==
    /\ dd_state = "ready"
    /\ \E outcome \in StatsOutcomes(dd_packages) :
          IF dd_downloads_age.none \/ dd_downloads.none
          THEN IF outcome = ""
               THEN /\ dd_downloads' = Snapshot(dd_packages, clock)
                    /\ dd_downloads_age' = [none |-> FALSE, time |-> clock]
                    /\ ret' = [op |-> "downloads", raised |-> "", value |-> dd_downloads']
               ELSE IF outcome = "BiocDownloadsError"
               THEN /\ dd_downloads' = None
                    /\ dd_downloads_age' = None
                    /\ ret' = [op |-> "downloads", raised |-> "", value |-> None]
               ELSE /\ ret' = [op |-> "downloads", raised |-> outcome, value |-> None]
                    /\ UNCHANGED <<dd_downloads, dd_downloads_age>>
          ELSE IF Stale(dd_downloads_age.time)
          THEN IF outcome = ""
               THEN /\ dd_downloads' = Snapshot(dd_packages, clock)
                    /\ dd_downloads_age' = [none |-> FALSE, time |-> clock]
                    /\ ret' = [op |-> "downloads", raised |-> "", value |-> dd_downloads']
               ELSE /\ ret' = [op |-> "downloads", raised |-> outcome, value |-> None]
                    /\ UNCHANGED <<dd_downloads, dd_downloads_age>>
          ELSE /\ outcome = ""
               /\ ret' = [op |-> "downloads", raised |-> "", value |-> dd_downloads]
               /\ UNCHANGED <<dd_downloads, dd_downloads_age>>
    /\ UNCHANGED <<clock, cache, soup, soup_age, dd_state, dd_packages, sydneybiox_packs,
                   dd_status_df, dd_github_issues, dd_github_age>>
    /\ UNCHANGED <<plVars, gpsVars, gdsVars, giVars>>

\* Lines 190-202: the property github_issues.
ReadGithubIssues ==
    /\ dd_state = "ready"
    /\ \E outcome \in IssuesOutcomes(dd_packages) :
          IF dd_github_age.none \/ dd_github_issues.none
          THEN IF outcome = ""
               THEN /\ dd_github_issues' = Snapshot(dd_packages, clock)
                    /\ dd_github_age' = [none |-> FALSE, time |-> clock]
                    /\ ret' = [op |-> "github_issues", raised |-> "",
                               value |-> dd_github_issues']
               ELSE /\ ret' = [op |-> "github_issues", raised |-> outcome, value |-> None]
                    /\ UNCHANGED <<dd_github_issues, dd_github_age>>
          ELSE /\ outcome = ""
               /\ ret' = [op |-> "github_issues", raised |-> "", value |-> dd_github_issues]
               /\ UNCHANGED <<dd_github_issues, dd_github_age>>
    /\ UNCHANGED <<clock, cache, soup, soup_age, dd_state, dd_packages, sydneybiox_packs,
                   dd_status_df, dd_downloads, dd_downloads_age>>
    /\ UNCHANGED <<plVars, gpsVars, gdsVars, giVars>>

RECURSIVE lstrip(_)
lstrip(s) == IF s # <<>> /\ Head(s) = " " THEN lstrip(Tail(s)) ELSE s

RECURSIVE rstrip(_)
rstrip(s) ==
    IF s # <<>> /\ s[Len(s)] = " " THEN rstrip(SubSeq(s, 1, Len(s) - 1)) ELSE s

\* user_input.strip()
strip(s) == rstrip(lstrip(s))

\* Line 214 and the `if not package: continue` of the loop.
Tokens(user_input) ==
    SelectSeq(Split(strip(user_input), <<" ">>), LAMBDA package : package # <<>>)

\* Line 222: `package in self.valid_paks`, valid_paks a DataFrame: the test
\* is on the frame's column labels.
InValidPaks(package) == package \in ColumnLabels

\* The set of a list's elements.
Elements(list) == { list[n] : n \in DOMAIN list }

UserInputs == {<<"a">>, <<" ", "a", " ", " ", "z", " ">>, <<"N", "a", "m", "e">>, <<>>}

\* The lists the dashboard's multiselect passes.
ListInputs == {<<<<"b">>>>, <<<<"a">>, <<"b">>>>}

\* Lines 204-243: parse_input on a string or on a list.
ParseInput ==
    /\ dd_state = "ready"
    /\ \/ \E user_input \in UserInputs :
            LET valid == SelectSeq(Tokens(user_input), InValidPaks)
                invalid == SelectSeq(Tokens(user_input),
                                     LAMBDA package : ~InValidPaks(package))
            IN  update_packages(Elements(valid),
                                [op |-> "parse_input", raised |-> "", is_str |-> TRUE,
                                 input |-> user_input, valid |-> valid,
                                 warned |-> invalid])
       \/ \E user_input \in ListInputs :
            update_packages(Elements(user_input),
                            [op |-> "parse_input", raised |-> "", is_str |-> FALSE,
                             input |-> user_input, valid |-> user_input,
                             warned |-> <<>>])
    /\ UNCHANGED <<clock, cache, soup, soup_age, dd_state, sydneybiox_packs,
                   dd_downloads_age, dd_github_age>>
    /\ UNCHANGED <<plVars, gpsVars, gdsVars, giVars>>

InitDash ==
    /\ PlIdle
    /\ GpsIdle
    /\ GdsIdle
    /\ GiIdle
    /\ clock = StartClock
    /\ cache \in [DOMAIN SoupKeys -> {NoFile, 0, 2 * TickHours}]
    /\ soup = [k \in DOMAIN SoupKeys |-> NoFile]
    /\ soup_age = Inf
    /\ dd_state = "new"
    /\ dd_packages = {}
    /\ sydneybiox_packs = None
    /\ dd_status_df = None
    /\ dd_downloads = None
    /\ dd_downloads_age = None
    /\ dd_github_issues = None
    /\ dd_github_age = None
    /\ ret = None

NextDash ==
    \/ Construct
    \/ Tick
    \/ UpdatePackages
    \/ ParseInput
    \/ ReadStatusDf
    \/ ReadDownloads
    \/ ReadGithubIssues

SpecDash == InitDash /\ [][NextDash]_vars

(***************************************************************************)
(* C11, C12, C17, C18, C19, C20                                            *)
(***************************************************************************)
\* The last call on the object, made at the current time, was `op`.
LastCall(op) == "op" \in DOMAIN ret /\ ret.op = op

\* That call returned a value other than None.
Returned(op) == LastCall(op) /\ ret.raised = "" /\ ~ret.value.none

Reads == {"status_df", "downloads", "github_issues"}

\* Every page of a status table was fetched within the last 8 hours.
PagesFresh(table) == \A k \in DOMAIN table.pages : clock - table.pages[k] <= MaxAgeHours

\* C11: no read of status_df, downloads or github_issues returns a snapshot
\* fetched more than 8 hours before the read.
C11_ReadsAreTimeBoxed ==
    /\ Returned("status_df") => PagesFresh(ret.value)
    /\ Returned("downloads") => clock - ret.value.fetched <= MaxAgeHours
    /\ Returned("github_issues") => clock - ret.value.fetched <= MaxAgeHours

\* C12: a stale read of status_df that fails on one of the three fetches
\* leaves every type's pages and soup_age as they were; one whose fetches all
\* succeed replaces the pages of all three types.
C12_RefreshIsAllOrNothing ==
    [][ (dd_state = "ready" /\ Stale(soup_age) /\ LastCall("status_df")')
            => IF ret'.raised # ""
               THEN soup' = soup /\ soup_age' = soup_age
               ELSE \A k \in DOMAIN SoupKeys : soup'[k] = clock ]_vars

\* C17: soup_age is no later than the fetch time of any page held, so a
\* table returned by status_df is never computed from a page fetched more
\* than 8 hours before the read.
C17_SoupAgeIsOldestPage ==
    /\ dd_state = "ready" => \A k \in DOMAIN SoupKeys : soup_age <= soup[k]
    /\ Returned("status_df") => PagesFresh(ret.value)

\* C18: every value a read returns was computed for the current package set;
\* a change of the package set clears the three cached values; a call of
\* update_packages or parse_input that leaves the package set unchanged
\* leaves the three cached values untouched.
C18_CachedValuesFollowPackageSet ==
    [][ dd_state = "ready" =>
          /\ \A op \in Reads : Returned(op)' => ret'.value.packages = dd_packages'
          /\ dd_packages' # dd_packages =>
                (dd_status_df'.none /\ dd_downloads'.none /\ dd_github_issues'.none)
          /\ ((LastCall("update_packages")' \/ LastCall("parse_input")')
                  /\ dd_packages' = dd_packages)
                => UNCHANGED <<dd_status_df, dd_downloads, dd_github_issues>> ]_vars

\* C19: a read of downloads never ends with BiocDownloadsError.
C19_DownloadsNeverRaisesBiocDownloadsError ==
    LastCall("downloads") => ret.raised # "BiocDownloadsError"

\* C20: parse_input on a string passes to update_packages exactly the tokens
\* that are names of valid_paks and names exactly the other tokens in its
\* warning.
C20_TokensClassifiedByPackageName ==
    (LastCall("parse_input") /\ ret.is_str) =>
        /\ ret.valid = SelectSeq(Tokens(ret.input), LAMBDA t : t \in ValidNames)
        /\ ret.warned = SelectSeq(Tokens(ret.input), LAMBDA t : t \notin ValidNames)

(***************************************************************************)
(* C21                                                                     *)
(***************************************************************************)
\* C21: every record of the returned table carries in its Release column the
\* channel of the page it was made from ("release" for a type's first page,
\* "devel" for its second), and with devel=False only release pages are
\* processed.
C21_RecordsLabelledWithPageChannel ==
    /\ \A j \in DOMAIN seen : ~devel => seen[j].soup = Release
    /\ data.returned =>
          \A n \in DOMAIN data.rows :
              IsStr(data.rows[n][ReleaseCol], seen[data.index[n]].soup)
====
